---- MODULE Spec2Model ----
(***************************************************************************)
(* Huffman tree construction, code assignment, topology serialisation and  *)
(* stream framing of huffman-coding-rs.                                    *)
(*                                                                         *)
(* Option<T> is modelled as a sequence of length 0 (None) or 1 (Some).     *)
(* A HuffBranch is the record                                              *)
(*   [leaf |-> [character, frequency, code], pos_in_parent, children]      *)
(* with children = <<>> (no children) or <<first, second>>.                *)
(* A code (String of '0'/'1' in tree.rs, HuffCode in branch.rs) is a       *)
(* sequence over {0, 1}.                                                   *)
(***************************************************************************)
EXTENDS Integers, Sequences, FiniteSets, TLC

\* ------------------------------------------------------------------ bounds
NumLetters == 3
MaxWeight == 3
MaxRegrowWeight == 1
MaxLen == 5

\* ------------------------------------------------------- program constants
\* width of a serialised char: format!("{:032b}", c as u32)
CharBits == 32
\* width of the original-length field of a compressed stream
LenBits == 32

\* ------------------------------------------------------------------ inputs
Letters == {96 + i : i \in 1..NumLetters}

TablesUpTo(w) == UNION {[S -> 0..w] : S \in SUBSET Letters}

Tables == TablesUpTo(MaxWeight)

RegrowTables == TablesUpTo(MaxRegrowWeight)

RECURSIVE SeqsUpTo(_)
SeqsUpTo(n) ==
    IF n = 0 THEN {<<>>}
    ELSE LET shorter == SeqsUpTo(n - 1)
         IN shorter \cup {Append(s, l) : s \in {t \in shorter : Len(t) = n - 1}, l \in Letters}

ByteSeqs == SeqsUpTo(MaxLen)

\* ------------------------------------------------------------------ Option
None == <<>>

Some(x) == <<x>>

IsSome(o) == Len(o) = 1

Unwrap(o) == o[1]

EmptyMap == [x \in {} |-> <<>>]

Insert(map, k, v) == [x \in (DOMAIN map) \cup {k} |-> IF x = k THEN v ELSE map[x]]

\* --------------------------------------------------------------- HuffLeaf
HuffLeafNew(character, frequency) ==
    [character |-> character, frequency |-> frequency, code |-> None]

\* ------------------------------------------------------------- HuffBranch
HuffBranchNew(leaf, children) ==
    [leaf |-> leaf, pos_in_parent |-> None, children |-> children]

HasChildren(b) == Len(b.children) = 2

set_pos_in_parent(b, pos) == [b EXCEPT !.pos_in_parent = Some(pos)]

\* impl Ord for HuffBranch: reversed comparison of the frequencies
cmp_swapped(self, other) ==
    IF self.leaf.frequency < other.leaf.frequency THEN "Less"
    ELSE IF self.leaf.frequency = other.leaf.frequency THEN "Equal"
    ELSE "Greater"

cmp(self, other) ==
    IF other.leaf.frequency < self.leaf.frequency THEN "Less"
    ELSE IF other.leaf.frequency = self.leaf.frequency THEN "Equal"
    ELSE "Greater"

set_code_no_parent(b, parent_code) ==
    IF IsSome(b.pos_in_parent)
    THEN [b EXCEPT !.leaf.code =
            Some(<<IF Unwrap(b.pos_in_parent) >= 1 THEN 1 ELSE 0>>)]
    ELSE b

set_code(b, parent_code) ==
    IF IsSome(b.pos_in_parent)
    THEN [b EXCEPT !.leaf.code =
            Some((IF IsSome(parent_code) THEN Unwrap(parent_code) ELSE <<>>)
                 \o <<IF Unwrap(b.pos_in_parent) >= 1 THEN 1 ELSE 0>>)]
    ELSE b

\* --------------------------------------------------------- HuffBranchHeap
\* HuffBranchHeap::from: one childless branch per entry of the weight table
HeapFrom(ctf) ==
    {HuffBranchNew(HuffLeafNew(Some(c), ctf[c]), None) : c \in DOMAIN ctf}

\* the forest builder accepts weight tables without invalid weights only
ValidWeightsLax(ctf) == TRUE

ValidWeights(ctf) == \A c \in DOMAIN ctf : ctf[c] > 0

\* pop_min: any branch that no other branch of the heap precedes
pop_min(heap) == {b \in heap : \A o \in heap : cmp(b, o) # "Less"}

\* ---------------------------------------------------------------- HuffTree
grow_ctf_assert_off(ctf) == TRUE

grow_ctf_assert(ctf) == Cardinality(DOMAIN ctf) > 0

merge_first_weight(min, next_min) ==
    HuffBranchNew(
        HuffLeafNew(None, min.leaf.frequency),
        <<set_pos_in_parent(min, 0), set_pos_in_parent(next_min, 1)>>)

\* body of the while loop of grow_ctf for one choice of the two pops
merge(min, next_min) ==
    HuffBranchNew(
        HuffLeafNew(None, min.leaf.frequency + next_min.leaf.frequency),
        <<set_pos_in_parent(min, 0), set_pos_in_parent(next_min, 1)>>)

MergeResults(heap) ==
    {(heap \ {min, next_min}) \cup {merge(min, next_min)} :
        <<min, next_min>> \in
            {<<a, b>> \in heap \X heap : a \in pop_min(heap) /\ b \in pop_min(heap \ {a})}}

RECURSIVE set_branch_codes(_)
set_branch_codes(root) ==
    IF HasChildren(root)
    THEN [root EXCEPT !.children =
            <<set_branch_codes(set_code(root.children[1], root.leaf.code)),
              set_branch_codes(set_code(root.children[2], root.leaf.code))>>]
    ELSE root

leaf_root_code_empty == <<>>

leaf_root_code_one == <<1>>

\* String::from("0") of the childless-root arm of set_char_codes
leaf_root_code == <<0>>

RECURSIVE set_char_codes(_, _)
set_char_codes(char_codes, root) ==
    IF HasChildren(root)
    THEN LET visit(cc, child) ==
                 IF IsSome(child.leaf.character)
                 THEN Insert(cc, Unwrap(child.leaf.character), Unwrap(child.leaf.code))
                 ELSE set_char_codes(cc, child)
         IN visit(visit(char_codes, root.children[1]), root.children[2])
    ELSE Insert(char_codes, Unwrap(root.leaf.character), leaf_root_code)

\* format!("{:032b}", n): n in binary, most significant bit first, w digits
RECURSIVE ToBin(_, _)
ToBin(n, w) == IF w = 0 THEN <<>> ELSE Append(ToBin(n \div 2, w - 1), n % 2)

RECURSIVE set_bin_swapped(_)
set_bin_swapped(root) ==
    IF HasChildren(root)
    THEN <<1>> \o set_bin_swapped(root.children[2]) \o set_bin_swapped(root.children[1])
    ELSE <<0>> \o ToBin(Unwrap(root.leaf.character), CharBits)

RECURSIVE set_bin(_)
set_bin(root) ==
    IF HasChildren(root)
    THEN <<1>> \o set_bin(root.children[1]) \o set_bin(root.children[2])
    ELSE <<0>> \o ToBin(Unwrap(root.leaf.character), CharBits)

fresh_char_codes_stale(old) == old

\* let mut char_codes: HashMap<char, String> = HashMap::new();
fresh_char_codes(old) == EmptyMap

\* as_bin: the topology bits of a rooted tree
as_bin(r) == set_bin(Unwrap(r))

\* ---------------------------------------------------------- topology codec
\* the letter of a fixed-width block, most significant bit first
RECURSIVE FromBin(_)
FromBin(bits) ==
    IF bits = <<>> THEN 0
    ELSE 2 * FromBin(SubSeq(bits, 1, Len(bits) - 1)) + bits[Len(bits)]

\* recursive descent over the topology bits: [tree, rest], tree = None when
\* the bits run out before a pending read is served
RECURSIVE parse_branch(_)
parse_branch(bits) ==
    IF bits = <<>> THEN [tree |-> None, rest |-> <<>>]
    ELSE IF Head(bits) = 1
    THEN LET first == parse_branch(Tail(bits))
         IN IF ~IsSome(first.tree) THEN first
            ELSE LET second == parse_branch(first.rest)
                 IN IF ~IsSome(second.tree) THEN second
                    ELSE [tree |-> Some(HuffBranchNew(
                                      HuffLeafNew(None, 0),
                                      <<set_pos_in_parent(Unwrap(first.tree), 0),
                                        set_pos_in_parent(Unwrap(second.tree), 1)>>)),
                          rest |-> second.rest]
    ELSE IF Len(bits) - 1 < CharBits THEN [tree |-> None, rest |-> <<>>]
    ELSE [tree |-> Some(HuffBranchNew(
                      HuffLeafNew(Some(FromBin(SubSeq(bits, 2, CharBits + 1))), 0),
                      None)),
          rest |-> SubSeq(bits, CharBits + 2, Len(bits))]

\* try_from_bin: parse, then re-run the code assigner
try_from_bin(bits) ==
    LET parsed == parse_branch(bits)
    IN IF ~IsSome(parsed.tree)
       THEN [err |-> "TruncatedInput", tree |-> None, codes |-> EmptyMap, rest |-> <<>>]
       ELSE LET coded == set_branch_codes(Unwrap(parsed.tree))
            IN [err |-> "none",
                tree |-> Some(coded),
                codes |-> set_char_codes(EmptyMap, coded),
                rest |-> parsed.rest]

NoFromBin == [err |-> "none", tree |-> None, codes |-> EmptyMap, rest |-> <<>>]

\* ------------------------------------------------------------ stream codec
\* occurrence count of every distinct letter of a sequence
WeightsOf(b) ==
    [c \in {b[i] : i \in DOMAIN b} |-> Cardinality({i \in DOMAIN b : b[i] = c})]

RECURSIVE Payload(_, _)
Payload(codes, b) ==
    IF b = <<>> THEN <<>> ELSE codes[Head(b)] \o Payload(codes, Tail(b))

ZeroPad(bits) == bits \o [i \in 1..((8 - (Len(bits) % 8)) % 8) |-> 0]

\* header ++ length of the input ++ payload padded to a byte boundary
compress_emit(r, codes, b) ==
    as_bin(r) \o ToBin(Len(b), LenBits) \o ZeroPad(Payload(codes, b))

\* walk the payload from the root; stop after n letters
RECURSIVE walk(_, _, _, _, _)
walk(tree, cur, bits, n, out) ==
    IF Len(out) = n THEN [err |-> "none", out |-> out]
    ELSE IF bits = <<>> THEN [err |-> "TruncatedPayload", out |-> out]
    ELSE LET at == IF HasChildren(cur) THEN cur.children[Head(bits) + 1] ELSE cur
         IN IF HasChildren(at)
            THEN walk(tree, at, Tail(bits), n, out)
            ELSE walk(tree, tree, Tail(bits), n, Append(out, Unwrap(at.leaf.character)))

decompress(data) ==
    LET header == try_from_bin(data)
    IN IF header.err # "none" \/ Len(header.rest) < LenBits
       THEN [err |-> "CorruptHeader", out |-> <<>>]
       ELSE walk(Unwrap(header.tree), Unwrap(header.tree),
                 SubSeq(header.rest, LenBits + 1, Len(header.rest)),
                 FromBin(SubSeq(header.rest, 1, LenBits)), <<>>)

\* ------------------------------------------------------------------- state
VARIABLES
    held,         \* TRUE iff the caller holds a HuffTree value
    root,         \* HuffTree.root : Option<HuffBranch>
    char_codes,   \* HuffTree.char_codes
    branch_heap,  \* the local branch_heap of a running grow_ctf
    ctf,          \* the weight table of the running or the last completed growth
    pc,           \* "idle" or "reducing" (inside the while loop of grow_ctf)
    op,           \* the most recent call
    err,          \* failure of the most recent call, "none" if it succeeded
    bin,          \* the bits returned by the most recent as_bin
    from_bin,     \* the result of the most recent try_from_bin
    input,        \* the bytes given to the most recent compress
    comp_data,    \* the bits returned by the most recent compress
    decomp,       \* the bytes returned by the most recent decompress
    replaced      \* history: the most recent call completed a growth that
                  \* overwrote a code table holding a letter its table lacks

vars == <<held, root, char_codes, branch_heap, ctf, pc, op, err,
          bin, from_bin, input, comp_data, decomp, replaced>>

\* the values returned by earlier codec calls are dropped
DropResults ==
    /\ bin' = <<>>
    /\ from_bin' = NoFromBin
    /\ input' = <<>>
    /\ comp_data' = <<>>
    /\ decomp' = <<>>
    /\ replaced' = FALSE

Init ==
    /\ held = FALSE
    /\ root = None
    /\ char_codes = EmptyMap
    /\ branch_heap = {}
    /\ ctf = EmptyMap
    /\ pc = "idle"
    /\ op = "none"
    /\ err = "none"
    /\ bin = <<>>
    /\ from_bin = NoFromBin
    /\ input = <<>>
    /\ comp_data = <<>>
    /\ decomp = <<>>
    /\ replaced = FALSE

\* HuffTree::new(None)
New ==
    /\ pc = "idle"
    /\ op = "none"
    /\ held' = TRUE
    /\ root' = None
    /\ char_codes' = EmptyMap
    /\ branch_heap' = {}
    /\ op' = "new"
    /\ err' = "none"
    /\ DropResults
    /\ UNCHANGED <<ctf, pc>>

\* from_ctf on an empty table: the assertion of grow_ctf fails and the tree
\* under construction is dropped
FromCtfEmpty ==
    /\ pc = "idle"
    /\ op = "none"
    /\ \E t \in Tables : ~grow_ctf_assert(t)
    /\ held' = FALSE
    /\ root' = None
    /\ char_codes' = EmptyMap
    /\ branch_heap' = {}
    /\ op' = "from_ctf"
    /\ err' = "EmptyAlphabet"
    /\ DropResults
    /\ UNCHANGED <<ctf, pc>>

\* from_ctf on a table the forest builder rejects
FromCtfInvalid ==
    /\ pc = "idle"
    /\ op = "none"
    /\ \E t \in Tables : grow_ctf_assert(t) /\ ~ValidWeights(t)
    /\ held' = FALSE
    /\ root' = None
    /\ char_codes' = EmptyMap
    /\ branch_heap' = {}
    /\ op' = "from_ctf"
    /\ err' = "InvalidWeight"
    /\ DropResults
    /\ UNCHANGED <<ctf, pc>>

\* from_ctf up to the first test of the while loop of grow_ctf
FromCtfStart ==
    /\ pc = "idle"
    /\ op = "none"
    /\ \E t \in Tables :
        /\ grow_ctf_assert(t)
        /\ ValidWeights(t)
        /\ ctf' = t
        /\ branch_heap' = HeapFrom(t)
    /\ held' = FALSE
    /\ root' = None
    /\ char_codes' = EmptyMap
    /\ pc' = "reducing"
    /\ op' = "from_ctf"
    /\ err' = "none"
    /\ DropResults

\* the caller lets go of the tree and of every result
Drop ==
    /\ pc = "idle"
    /\ op # "none"
    /\ held' = FALSE
    /\ root' = None
    /\ char_codes' = EmptyMap
    /\ branch_heap' = {}
    /\ ctf' = EmptyMap
    /\ op' = "none"
    /\ err' = "none"
    /\ DropResults
    /\ UNCHANGED pc

\* grow_ctf on the held tree with an empty table: the assertion fails before
\* anything is written
GrowCtfEmpty ==
    /\ pc = "idle"
    /\ held
    /\ \E t \in RegrowTables : ~grow_ctf_assert(t)
    /\ op' = "grow_ctf"
    /\ err' = "EmptyAlphabet"
    /\ DropResults
    /\ UNCHANGED <<held, root, char_codes, branch_heap, ctf, pc>>

\* grow_ctf on the held tree with a table the forest builder rejects
GrowCtfInvalid ==
    /\ pc = "idle"
    /\ held
    /\ \E t \in RegrowTables : grow_ctf_assert(t) /\ ~ValidWeights(t)
    /\ op' = "grow_ctf"
    /\ err' = "InvalidWeight"
    /\ DropResults
    /\ UNCHANGED <<held, root, char_codes, branch_heap, ctf, pc>>

\* grow_ctf on the held tree up to the first test of the while loop
GrowCtfStart ==
    /\ pc = "idle"
    /\ held
    /\ \E t \in RegrowTables :
        /\ grow_ctf_assert(t)
        /\ ValidWeights(t)
        /\ ctf' = t
        /\ branch_heap' = HeapFrom(t)
    /\ pc' = "reducing"
    /\ op' = "grow_ctf"
    /\ err' = "none"
    /\ DropResults
    /\ UNCHANGED <<held, root, char_codes>>

\* compress up to the first test of the while loop of the tree's growth
CompressStart ==
    /\ pc = "idle"
    /\ op = "none"
    /\ \E b \in ByteSeqs :
        /\ grow_ctf_assert(WeightsOf(b))
        /\ ctf' = WeightsOf(b)
        /\ branch_heap' = HeapFrom(WeightsOf(b))
        /\ input' = b
    /\ held' = FALSE
    /\ root' = None
    /\ char_codes' = EmptyMap
    /\ pc' = "reducing"
    /\ op' = "compress"
    /\ err' = "none"
    /\ bin' = <<>>
    /\ from_bin' = NoFromBin
    /\ comp_data' = <<>>
    /\ decomp' = <<>>
    /\ replaced' = FALSE

\* one iteration of the while loop of grow_ctf
Merge ==
    /\ pc = "reducing"
    /\ Cardinality(branch_heap) > 1
    /\ branch_heap' \in MergeResults(branch_heap)
    /\ UNCHANGED <<held, root, char_codes, ctf, pc, op, err,
                   bin, from_bin, input, comp_data, decomp, replaced>>

\* grow_ctf after the loop: the root and the codes
GrowFinish ==
    /\ pc = "reducing"
    /\ ~(Cardinality(branch_heap) > 1)
    /\ IF branch_heap = {}
       THEN /\ err' = "EmptyHeap"
            /\ UNCHANGED <<held, root, char_codes, branch_heap>>
       ELSE \E popped \in pop_min(branch_heap) :
            LET coded == set_branch_codes(popped)
            IN /\ root' = Some(coded)
               /\ char_codes' = set_char_codes(fresh_char_codes(char_codes), coded)
               /\ branch_heap' = branch_heap \ {popped}
               /\ held' = TRUE
               /\ err' = "none"
    /\ replaced' = (branch_heap # {} /\ (DOMAIN char_codes) \ (DOMAIN ctf) # {})
    /\ pc' = "idle"
    /\ UNCHANGED <<ctf, op, bin, from_bin, input, comp_data, decomp>>

\* as_bin on the held tree; the unwrap of a missing root panics
AsBin ==
    /\ pc = "idle"
    /\ held
    /\ op \in {"new", "from_ctf", "grow_ctf"}
    /\ IF IsSome(root)
       THEN /\ bin' = as_bin(root)
            /\ err' = "none"
       ELSE /\ bin' = <<>>
            /\ err' = "NoRoot"
    /\ op' = "as_bin"
    /\ UNCHANGED <<held, root, char_codes, branch_heap, ctf, pc,
                   from_bin, input, comp_data, decomp, replaced>>

\* try_from_bin on the bits as_bin returned
TryFromBin ==
    /\ pc = "idle"
    /\ op = "as_bin"
    /\ err = "none"
    /\ from_bin' = try_from_bin(bin)
    /\ op' = "try_from_bin"
    /\ UNCHANGED <<held, root, char_codes, branch_heap, ctf, pc, err,
                   bin, input, comp_data, decomp, replaced>>

\* compress once its tree is grown: header, length and payload
CompressEmit ==
    /\ pc = "idle"
    /\ op = "compress"
    /\ comp_data' = compress_emit(root, char_codes, input)
    /\ op' = "compressed"
    /\ UNCHANGED <<held, root, char_codes, branch_heap, ctf, pc, err,
                   bin, from_bin, input, decomp, replaced>>

\* decompress on the bits compress returned
Decompress ==
    /\ pc = "idle"
    /\ op = "compressed"
    /\ LET res == decompress(comp_data)
       IN /\ decomp' = res.out
          /\ err' = res.err
    /\ op' = "decompress"
    /\ UNCHANGED <<held, root, char_codes, branch_heap, ctf, pc,
                   bin, from_bin, input, comp_data, replaced>>

Next ==
    \/ New
    \/ FromCtfEmpty
    \/ FromCtfInvalid
    \/ FromCtfStart
    \/ CompressStart
    \/ Merge
    \/ GrowFinish
    \/ AsBin
    \/ TryFromBin
    \/ CompressEmit
    \/ Decompress
    \/ Drop

Spec == Init /\ [][Next]_vars

\* one tree grown again and again in place
NextRegrow ==
    \/ New
    \/ GrowCtfEmpty
    \/ GrowCtfInvalid
    \/ GrowCtfStart
    \/ Merge
    \/ GrowFinish
    \/ Drop

SpecRegrow == Init /\ [][NextRegrow]_vars

\* ------------------------------------------------------------- properties
\* a tree on which a growth has completed
Grown == pc = "idle" /\ held /\ IsSome(root)

IsPrefix(a, b) == Len(a) <= Len(b) /\ SubSeq(b, 1, Len(a)) = a

\* every node below (and including) b, paired with the pos_in_parent values
\* on the way from b down to it
RECURSIVE NodesAt(_, _)
NodesAt(b, path) ==
    {<<path, b>>} \cup
    (IF HasChildren(b)
     THEN UNION {NodesAt(b.children[i], path \o b.children[i].pos_in_parent) : i \in 1..2}
     ELSE {})

Terminals(b) == {n \in NodesAt(b, <<>>) : ~HasChildren(n[2])}

RECURSIVE WeightOK(_)
WeightOK(b) ==
    HasChildren(b) =>
        /\ b.leaf.frequency = b.children[1].leaf.frequency + b.children[2].leaf.frequency
        /\ WeightOK(b.children[1])
        /\ WeightOK(b.children[2])

RECURSIVE SumOf(_)
SumOf(t) ==
    IF DOMAIN t = {} THEN 0
    ELSE LET c == CHOOSE x \in DOMAIN t : TRUE
         IN t[c] + SumOf([x \in (DOMAIN t) \ {c} |-> t[x]])

\* C1: decompress(compress(b)) returns exactly b for every non-empty b, for
\* every tree compress may have grown; the padding adds and drops no letter.
C1_RoundTripCompression ==
    op = "decompress" => (err = "none" /\ decomp = input)

\* a single distinct byte, repeated, with padding bits behind the payload
C1_Witness ==
    /\ op = "decompress"
    /\ Cardinality(DOMAIN ctf) = 1
    /\ Len(input) = 3
    /\ Len(comp_data) = (1 + CharBits) + LenBits + 8

\* C2: parsing the bits of as_bin and re-running the code assigner gives the
\* code table of the serialised tree and leaves no bit over.
C2_RoundTripTopology ==
    op = "try_from_bin" =>
        /\ from_bin.err = "none"
        /\ from_bin.codes = char_codes
        /\ from_bin.rest = <<>>

C2_Witness ==
    /\ op = "try_from_bin"
    /\ Cardinality(DOMAIN char_codes) = 3
    /\ Len(bin) = 3 * (1 + CharBits) + 2

\* C3: in the code table of a grown tree no code is empty and no code of one
\* letter is a prefix of the code of another letter.
C3_PrefixFree ==
    Grown =>
        /\ \A x \in DOMAIN char_codes : Len(char_codes[x]) > 0
        /\ \A x, y \in DOMAIN char_codes :
               x # y => ~IsPrefix(char_codes[x], char_codes[y])

C3_Witness ==
    /\ Grown
    /\ \E x, y \in DOMAIN char_codes : Len(char_codes[x]) = 1 /\ Len(char_codes[y]) = 2

\* C4 as stated: an empty weight table never starts a reduction, and every
\* tree value the caller holds has a root.
C4_EveryHeldTreeHasRoot ==
    /\ pc = "reducing" => DOMAIN ctf # {}
    /\ held => IsSome(root)

\* C4 as amended: an empty weight table fails before anything is built and
\* from_ctf returns no tree for it; the only rootless tree a caller can hold is
\* one made by new(None) on which no growth has completed, and as_bin on it
\* fails instead of returning bits.
C4_EmptyRejected ==
    /\ pc = "reducing" => DOMAIN ctf # {}
    /\ err = "EmptyAlphabet" => (~held /\ ~IsSome(root) /\ branch_heap = {})
    /\ (held /\ ~IsSome(root)) => (op \in {"new", "as_bin"} /\ char_codes = EmptyMap)
    /\ (op = "as_bin" /\ ~IsSome(root)) => (err = "NoRoot" /\ bin = <<>>)
    /\ (op \in {"from_ctf", "compress", "compressed", "decompress"} /\ held) => IsSome(root)

C4_Witness == op = "from_ctf" /\ err = "EmptyAlphabet" /\ pc = "idle"

C6_CodeLengthMonotone ==
    Grown =>
        /\ \A x, y \in DOMAIN ctf :
               ctf[x] > ctf[y] => Len(char_codes[x]) <= Len(char_codes[y])
        /\ ctf = (97 :> 3 @@ 98 :> 2 @@ 99 :> 1) =>
               /\ Len(char_codes[97]) = 1
               /\ Len(char_codes[98]) = 2
               /\ Len(char_codes[99]) = 2

C6_Witness == Grown /\ op = "from_ctf" /\ ctf = (97 :> 3 @@ 98 :> 2 @@ 99 :> 1)

\* C7: at every step of the reduction and in the finished tree every internal
\* node weighs the sum of its two children, the forest weighs the sum of the
\* weight table, and the finished root weighs the sum of the weight table.
C7_WeightConservation ==
    /\ \A b \in branch_heap : WeightOK(b)
    /\ pc = "reducing" =>
           SumOf([b \in branch_heap |-> b.leaf.frequency]) = SumOf(ctf)
    /\ Grown => (WeightOK(Unwrap(root)) /\ Unwrap(root).leaf.frequency = SumOf(ctf))

C7_Witness ==
    /\ Grown
    /\ HasChildren(Unwrap(root))
    /\ \E i \in 1..2 : HasChildren(Unwrap(root).children[i])

\* C8: after any sequence of growths of one tree the code table's domain is
\* exactly the letter set of the most recent weight table that was grown.
C8_DomainIsLatestTable ==
    Grown => DOMAIN char_codes = DOMAIN ctf

\* a growth that replaced a table holding letters its own table lacks
C8_Witness == Grown /\ op = "grow_ctf" /\ replaced /\ Cardinality(DOMAIN ctf) = 2

\* C9: a one-letter weight table is never merged: the forest stays the one
\* childless branch, which becomes the root without a pos_in_parent, and the
\* code table maps the letter to the single bit 0.
C9_SingleLetter ==
    \A l \in DOMAIN ctf :
        DOMAIN ctf = {l} =>
            /\ pc = "reducing" => branch_heap = HeapFrom(ctf)
            /\ Grown =>
                   /\ ~HasChildren(Unwrap(root))
                   /\ Unwrap(root).pos_in_parent = None
                   /\ Unwrap(root).leaf.character = Some(l)
                   /\ Unwrap(root).leaf.frequency = ctf[l]
                   /\ char_codes = (l :> <<0>>)

C9_Witness == Grown /\ op = "from_ctf" /\ ctf = (97 :> 3)

\* C10: after the code assigner every terminal node's own code is set and
\* equals the code table's entry of its letter; below the root it is the
\* sequence of pos_in_parent values on the path from the root, and for the
\* single-leaf tree it is the single bit 0.
C10_LeafCodesPopulated ==
    Grown =>
        \A n \in Terminals(Unwrap(root)) :
            /\ IsSome(n[2].leaf.code)
            /\ Unwrap(n[2].leaf.code) = char_codes[Unwrap(n[2].leaf.character)]
            /\ Unwrap(n[2].leaf.code) = (IF n[1] = <<>> THEN <<0>> ELSE n[1])

====
